---- MODULE Spec2Model ----
(***************************************************************************)
(* The Thing model of the gateway (src/src/models/thing.js): one Thing,    *)
(* the uploads directory its icon lives in, the database collaborator its  *)
(* setters save to, and the event emitter its events are dispatched        *)
(* through.  JavaScript runs one call at a time, so every method is one    *)
(* action; dispatchEvent alone is split at the points where it hands       *)
(* control to a listener callback, which may call back into the Thing.     *)
(***************************************************************************)
EXTENDS Integers, Sequences, FiniteSets, TLC

\* ---------------------------------------------------------------- bounds
MaxCalls == 3        \* method calls of any kind made in one run
MaxHubCalls == 5     \* event and subscription calls made in one run
MaxIconCalls == 3    \* icon and session calls made in one run
MaxViewCalls == 3    \* reads and setter calls made in one run
MaxEvents == 2       \* events dispatched in one run
MaxListeners == 2    \* registrations held by the emitter at one time
MaxDepth == 2        \* dispatchEvent calls nested inside listeners
MaxSockets == 2      \* websockets registered in one run

\* ---------------------------------------------------------------- values
Null == <<>>                       \* JavaScript null / undefined for a path
Absent == ""                       \* a falsy (missing) string
Undefined == <<>>                  \* an argument that was not passed
THINGS_PATH == "/things"           \* Constants.THINGS_PATH
PROPERTIES_PATH == "/properties"   \* Constants.PROPERTIES_PATH
Ids == {Absent, "t1"}
Names == {"lamp", "desk lamp"}
Coordinates == {<<0, 0>>, <<100, 50>>}
Capabilities == {"Light", "OnOffSwitch"}
IconDatas == {[data |-> "aGk=", mime |-> "image/png"],
              [data |-> "aGk=", mime |-> "image/jpeg"],
              [data |-> Absent, mime |-> "image/svg+xml"],
              [data |-> "aGk=", mime |-> "text/plain"]}
Callbacks == {"a", "b"}
Events == {[name |-> "overheated", thingId |-> Absent],
           [name |-> "pressed", thingId |-> "t9"]}
ReadyStates == {"connecting", "open", "closing", "closed"}
DbResults == {"resolved", "rejected"}
Hosts == {<<"gateway.local">>}
ActionNames == {"toggle", "fade"}

\* The icon a stored description may name: uploaded by an earlier run.
StoredIcon == <<0, ".png">>

VARIABLES
  status,      \* "none" before new Thing(...), then "ok" or "invalid"
  thing,       \* the fields of the Thing object
  listeners,   \* this.emitter: the listener array of Constants.EVENT
  stack,       \* the emit() calls in progress, innermost last
  received,    \* per callback, the events it has been invoked with
  due,         \* per callback, the events dispatched while it was registered
  files,       \* the base names of the files in the uploads directory
  nextFile,    \* how many names tmp has handed out
  db,          \* the Database.updateThing calls: how many, and the last one
  last,        \* the last method call: its name, inputs and outcome
  calls,       \* method calls made so far
  budget       \* method calls the run may make

vars == <<status, thing, listeners, stack, received, due, files, nextFile,
          db, last, calls, budget>>

\* ---------------------------------------------------------------- helpers
Range(s) == {s[i] : i \in 1..Len(s)}

IsPrefix(s, t) == Len(s) <= Len(t) /\ SubSeq(t, 1, Len(s)) = s

\* path.join('/uploads', path.basename(tempfile.name))
PublicPath(base) == <<"/uploads">> \o base

\* path.join(UserProfile.baseDir, this.iconHref): the file the href names
FileOf(href) == Tail(href)

\* `${Constants.THINGS_PATH}/${this.id}`
HrefOf(id) == <<THINGS_PATH, id>>

\* A slip: the property name is left out of its href.
PropertyHrefNoName(id, propertyName) == <<THINGS_PATH, id, PROPERTIES_PATH>>

\* `${THINGS_PATH}/${this.id}${PROPERTIES_PATH}/${propertyName}`
PropertyHref(id, propertyName) ==
  <<THINGS_PATH, id, PROPERTIES_PATH, propertyName>>

\* `${this.href}/actions/${actionName}`
ActionHref(href, actionName) == href \o <<"/actions", actionName>>

\* `${this.href}/events/${eventName}`
EventHref(href, eventName) == href \o <<"/events", eventName>>

\* this.properties: the described properties, each given its href.
PropertiesOf(description, id) ==
  [n \in DOMAIN description.properties |->
     [type |-> description.properties[n].type, href |-> PropertyHref(id, n)]]

\* this.actions: the described actions, each given its href.
ActionsOf(description, href) ==
  [n \in DOMAIN description.actions |->
     [type |-> description.actions[n].type, href |-> ActionHref(href, n)]]

\* this.events: the described events, each given its href.
EventsOf(description, href) ==
  [n \in DOMAIN description.events |->
     [type |-> description.events[n].type, href |-> EventHref(href, n)]]

\* The three links every Thing starts with.
BaseLinks(href) ==
  <<[rel |-> "properties", href |-> href \o <<"/properties">>],
    [rel |-> "actions", href |-> href \o <<"/actions">>],
    [rel |-> "events", href |-> href \o <<"/events">>]>>

\* link.href.startsWith('http')
StartsWithHttp(href) ==
  IF href = <<>> THEN FALSE ELSE href[1] \in {"http", "https"}

\* The href of the UI link: description.uiHref when truthy, else the first
\* alternate text/html link of the description with an http href, else the
\* Thing's own href.
UiHref(description, href) ==
  IF description.uiHref # Null
  THEN description.uiHref
  ELSE LET hits == {i \in 1..Len(description.links) :
                      /\ description.links[i].rel = "alternate"
                      /\ description.links[i].mediaType = "text/html"
                      /\ StartsWithHttp(description.links[i].href)}
       IN  IF hits = {}
           THEN href
           ELSE description.links[CHOOSE i \in hits :
                                    \A j \in hits : i <= j].href

\* this.links after the constructor: the base links, then the UI link.
LinksOf(description, href) ==
  Append(BaseLinks(href),
         [rel |-> "alternate", mediaType |-> "text/html",
          href |-> UiHref(description, href)])

\* ---------------------------------------------------------------- setIcon
\* A slip: the mime type is not checked.
IsValidIconAnyMime(iconData) == iconData.data # Absent

\* The guard of setIcon: data present and mime one of the three image types.
IsValidIcon(iconData) ==
  /\ iconData.data # Absent
  /\ iconData.mime \in {"image/jpeg", "image/png", "image/svg+xml"}

\* The switch on iconData.mime.
Extension(mime) ==
  CASE mime = "image/jpeg" -> ".jpg"
    [] mime = "image/png" -> ".png"
    [] mime = "image/svg+xml" -> ".svg"
    [] OTHER -> "undefined"

\* A slip: the old icon is never deleted.
UnlinkNothing(dir, file, fsOk) == dir

\* fs.unlinkSync(path): the directory after the call; it throws, and removes
\* nothing, when the file is missing or the file system refuses.
Unlink(dir, file, fsOk) == IF fsOk THEN dir \ {file} ELSE dir

\* fs.unlinkSync(tempfile.fd) after a failed write: the argument is a file
\* descriptor, not a path, so the call throws and the directory is as it was.
UnlinkByFd(dir, file) == dir

\* A slip: the reference to the deleted icon is kept.
KeptHref(href) == href

\* The icon reference once the old icon has been retired.
RetiredHref(href) == Null

\* The uploads directory once the old icon has been retired.
RetiredFiles(href, dir, unlinkOk) ==
  IF href # Null THEN Unlink(dir, FileOf(href), unlinkOk) ELSE dir

\* A slip: the full name of the file is taken for its base name.
InstalledHrefFullName(tempfile) == PublicPath(<<"uploads">> \o tempfile)

\* The icon reference after a successful write.
InstalledHref(tempfile) == PublicPath(tempfile)

\* The file part of setIcon: from the icon reference, the directory and tmp's
\* counter to the same three after the call, with the stage the call reached.
\* env says which file operations succeed: unlinkOk for fs.unlinkSync of the
\* old icon; write is "ok", "createFails" (tmp.fileSync throws) or
\* "writeFails" (fs.writeFileSync throws).
IconStep(href, dir, n, iconData, env) ==
  IF ~IsValidIcon(iconData)
  THEN [href |-> href, files |-> dir, next |-> n, stage |-> "invalid",
        unlinkFailed |-> FALSE]
  ELSE LET dir1 == RetiredFiles(href, dir, env.unlinkOk)
           href1 == IF href # Null THEN RetiredHref(href) ELSE href
           failed == href # Null /\ ~env.unlinkOk
           tempfile == <<n + 1, Extension(iconData.mime)>>
       IN  IF env.write = "createFails"
           THEN [href |-> href1, files |-> dir1, next |-> n,
                 stage |-> "writeFailed", unlinkFailed |-> failed]
           ELSE IF env.write = "writeFails"
           THEN [href |-> href1,
                 files |-> UnlinkByFd(dir1 \cup {tempfile}, tempfile),
                 next |-> n + 1, stage |-> "writeFailed",
                 unlinkFailed |-> failed]
           ELSE [href |-> InstalledHref(tempfile),
                 files |-> dir1 \cup {tempfile},
                 next |-> n + 1, stage |-> "installed",
                 unlinkFailed |-> failed]

Envs == [unlinkOk : BOOLEAN, write : {"ok", "createFails", "writeFails"}]

\* The file system answers only the operations that are made: a failure is
\* drawn for the unlink only when there is an old icon to unlink, and for the
\* write only when the icon data is valid.
Answers(href, iconData, env) ==
  /\ (href = Null \/ ~IsValidIcon(iconData)) => env.unlinkOk
  /\ ~IsValidIcon(iconData) => env.write = "ok"

\* ---------------------------------------------------------------- getDescription
\* JSON.parse(JSON.stringify(links)): a new list of new objects holding the
\* keys and string values of the old ones.
JsonCopy(links) ==
  [i \in 1..Len(links) |-> [k \in DOMAIN links[i] |-> links[i][k]]]

\* A slip: the scheme ignores reqSecure.
SchemeAlwaysWs(reqSecure) == "ws"

\* reqSecure ? 'wss' : 'ws'
Scheme(reqSecure) == IF reqSecure THEN "wss" ELSE "ws"

\* `${scheme}://${reqHost}${this.href}`
WsLink(href, reqHost, reqSecure) ==
  [rel |-> "alternate",
   href |-> <<Scheme(reqSecure), "://">> \o reqHost \o href]

\* getDescription(reqHost, reqSecure)
Describe(t, reqHost, reqSecure) ==
  [name |-> t.name, href |-> t.href,
   properties |-> t.properties, actions |-> t.actions, events |-> t.events,
   links |-> IF reqHost # Undefined
             THEN Append(JsonCopy(t.links),
                         WsLink(t.href, reqHost, reqSecure))
             ELSE JsonCopy(t.links),
   floorplanX |-> t.floorplanX, floorplanY |-> t.floorplanY,
   selectedCapability |-> t.selectedCapability, iconHref |-> t.iconHref]

\* getDescription(), as the setters call it.
GetDescription(t) == Describe(t, Undefined, FALSE)

\* Database.updateThing(id, description), answering `result`.
UpdateThing(d, id, description, result) ==
  [calls |-> d.calls + 1, id |-> id, description |-> description,
   result |-> result]

NoDb == [calls |-> 0, id |-> Absent, description |-> <<>>, result |-> Absent]

\* ---------------------------------------------------------------- state
NoThing ==
  [id |-> Absent, name |-> Absent, href |-> <<>>, floorplanX |-> 0,
   floorplanY |-> 0, selectedCapability |-> Absent, iconHref |-> Null,
   properties |-> <<>>, actions |-> <<>>, events |-> <<>>, links |-> <<>>,
   eventsDispatched |-> <<>>, websockets |-> <<>>]

Idle == stack = <<>>
Top == stack[Len(stack)]

\* A method can be called from the top level or from a running listener.
CanCall ==
  /\ status = "ok"
  /\ calls < budget
  /\ IF Idle THEN TRUE ELSE Top.running

Called(op, arg, stage, result) ==
  /\ last' = [op |-> op, arg |-> arg, stage |-> stage, result |-> result]
  /\ calls' = calls + 1
  /\ UNCHANGED budget

InitWith(max) ==
  /\ budget = max
  /\ status = "none"
  /\ thing = NoThing
  /\ listeners = <<>>
  /\ stack = <<>>
  /\ received = [c \in Callbacks |-> <<>>]
  /\ due = [c \in Callbacks |-> <<>>]
  /\ files = {StoredIcon}
  /\ nextFile = 0
  /\ db = NoDb
  /\ last = [op |-> "none", arg |-> <<>>, stage |-> Absent, result |-> Absent]
  /\ calls = 0

Init == InitWith(MaxCalls)

\* ---------------------------------------------------------------- constructor
\* A description with no collections, no links and no icon.
PlainDescription ==
  [present |-> TRUE, name |-> "lamp", floorplanX |-> 0, floorplanY |-> 0,
   selectedCapability |-> "Light",
   properties |-> <<>>, actions |-> <<>>, events |-> <<>>,
   uiHref |-> Null, links |-> <<>>,
   iconHref |-> Null, iconData |-> [data |-> Absent, mime |-> Absent]]

\* A description with one property, one action and one event.
LampDescription ==
  [PlainDescription EXCEPT
     !.properties = [n \in {"on"} |-> [type |-> "boolean"]],
     !.actions = [n \in {"toggle"} |-> [type |-> "action"]],
     !.events = [n \in {"overheated"} |-> [type |-> "number"]]]

\* The descriptions the constructor is given: the icon is absent, named by
\* iconHref (a stored description), or supplied as iconData; the UI link
\* is absent, named by uiHref, or found among the links.
Descriptions ==
  {PlainDescription,
   [PlainDescription EXCEPT
      !.iconData = [data |-> "aGk=", mime |-> "text/plain"]],
   [LampDescription EXCEPT
      !.uiHref = <<"https", "://ui.example/lamp">>,
      !.iconHref = PublicPath(StoredIcon),
      !.iconData = [data |-> "aGk=", mime |-> "image/png"]],
   [LampDescription EXCEPT
      !.links = <<[rel |-> "alternate", mediaType |-> "text/html",
                   href |-> <<"/ui", "/lamp">>],
                  [rel |-> "alternate", mediaType |-> "application/json",
                   href |-> <<"http", "://api.example/lamp">>],
                  [rel |-> "alternate", mediaType |-> "text/html",
                   href |-> <<"http", "://a.example/lamp">>],
                  [rel |-> "alternate", mediaType |-> "text/html",
                   href |-> <<"http", "://b.example/lamp">>]>>,
      !.iconData = [data |-> "aGk=", mime |-> "image/png"]]}
  \cup {[present |-> FALSE]}

Create(id, description, env) ==
  /\ status = "none"
  /\ IF id # Absent /\ description.present /\ description.iconHref = Null
     THEN Answers(Null, description.iconData, env)
     ELSE Answers(Null, [data |-> Absent, mime |-> Absent], env)
  /\ IF id = Absent \/ ~description.present
     THEN /\ status' = "invalid"
          /\ UNCHANGED <<thing, files, nextFile>>
          /\ last' = [op |-> "create", arg |-> <<>>, stage |-> "invalid",
                      result |-> "object"]
     ELSE LET icon == IF description.iconHref # Null
                      THEN [href |-> description.iconHref, files |-> files,
                            next |-> nextFile, stage |-> "stored",
                            unlinkFailed |-> FALSE]
                      ELSE IF description.iconData.data # Absent
                      THEN IconStep(Null, files, nextFile,
                                    description.iconData, env)
                      ELSE [href |-> Null, files |-> files,
                            next |-> nextFile, stage |-> "none",
                            unlinkFailed |-> FALSE]
          IN  /\ status' = "ok"
              /\ thing' = [id |-> id, name |-> description.name,
                           href |-> HrefOf(id),
                           floorplanX |-> description.floorplanX,
                           floorplanY |-> description.floorplanY,
                           selectedCapability |->
                             description.selectedCapability,
                           iconHref |-> icon.href,
                           properties |-> PropertiesOf(description, id),
                           actions |-> ActionsOf(description, HrefOf(id)),
                           events |-> EventsOf(description, HrefOf(id)),
                           links |-> LinksOf(description, HrefOf(id)),
                           eventsDispatched |-> <<>>, websockets |-> <<>>]
              /\ files' = icon.files
              /\ nextFile' = icon.next
              /\ last' = [op |-> "create", arg |-> <<>>, stage |-> icon.stage,
                          result |-> "object"]
  /\ UNCHANGED <<listeners, stack, received, due, db, calls, budget>>

\* ---------------------------------------------------------------- setters
\* A slip: the description is read before the field is assigned.
SavedDescriptionStale(before, after) == GetDescription(before)

\* The description a setter saves: read after the field was assigned.
SavedDescription(before, after) == GetDescription(after)

Setter(op, arg, after, result) ==
  /\ CanCall
  /\ thing' = after
  /\ db' = UpdateThing(db, thing.id, SavedDescription(thing, after), result)
  /\ Called(op, arg, Absent, result)
  /\ UNCHANGED <<status, listeners, stack, received, due, files, nextFile>>

SetCoordinates(x, y, result) ==
  Setter("setCoordinates", <<x, y>>,
         [thing EXCEPT !.floorplanX = x, !.floorplanY = y], result)

\* A slip that the code does not make: the name is put back when the save
\* is rejected.
SetNameRolledBack(name, result) ==
  Setter("setName", name,
         IF result = "rejected" THEN thing ELSE [thing EXCEPT !.name = name],
         result)

SetName(name, result) ==
  Setter("setName", name, [thing EXCEPT !.name = name], result)

SetSelectedCapability(capability, result) ==
  Setter("setSelectedCapability", capability,
         [thing EXCEPT !.selectedCapability = capability], result)

\* A slip: updateDatabase is ignored.
SavesIconAlways(stage, updateDatabase) == stage = "installed"

\* Whether setIcon goes on to save: the icon was installed and the caller
\* asked for it.
SavesIcon(stage, updateDatabase) == stage = "installed" /\ updateDatabase

SetIcon(iconData, updateDatabase, env, result) ==
  /\ CanCall
  /\ Answers(thing.iconHref, iconData, env)
  /\ LET icon == IconStep(thing.iconHref, files, nextFile, iconData, env)
         after == [thing EXCEPT !.iconHref = icon.href]
         saves == SavesIcon(icon.stage, updateDatabase)
     IN  /\ saves \/ result = "resolved"
         /\ thing' = after
         /\ files' = icon.files
         /\ nextFile' = icon.next
         /\ db' = IF saves
                  THEN UpdateThing(db, thing.id, GetDescription(after), result)
                  ELSE db
         /\ Called("setIcon",
                   [iconData |-> iconData, updateDatabase |-> updateDatabase,
                    unlinkFailed |-> icon.unlinkFailed],
                   icon.stage, IF saves THEN result ELSE "undefined")
  /\ UNCHANGED <<status, listeners, stack, received, due>>

\* setIcon called on the object that new Thing(...) yields when the
\* constructor returned early: the object has no field, so the icon is
\* installed as on a Thing with no icon, and the save, when asked for, throws
\* in getDescription (JSON.parse of the missing links) before it is made.
SetIconUnconstructed(iconData, updateDatabase, env) ==
  /\ status = "invalid"
  /\ calls < budget
  /\ Answers(thing.iconHref, iconData, env)
  /\ LET icon == IconStep(thing.iconHref, files, nextFile, iconData, env)
         saves == SavesIcon(icon.stage, updateDatabase)
     IN  /\ thing' = [thing EXCEPT !.iconHref = icon.href]
         /\ files' = icon.files
         /\ nextFile' = icon.next
         /\ Called("setIcon",
                   [iconData |-> iconData, updateDatabase |-> updateDatabase,
                    unlinkFailed |-> icon.unlinkFailed],
                   icon.stage, IF saves THEN "threw" ELSE "undefined")
  /\ UNCHANGED <<status, listeners, stack, received, due, db>>

\* ---------------------------------------------------------------- events
\* dispatchEvent's first statement: event.thingId defaults to the Thing's id.
Stamped(event, id) ==
  IF event.thingId = Absent THEN [event EXCEPT !.thingId = id] ELSE event

\* A slip: the record is put at the front (unshift for push).
Unshifted(log, event) == <<event>> \o log

\* this.eventsDispatched.push(event)
Pushed(log, event) == Append(log, event)

\* emitter.on(EVENT, callback): the registration goes to the end of the array.
On(ls, callback) == Append(ls, callback)

\* A slip: the index of the callback is not tested, and for an unknown
\* callback splice(-1, 1) takes out the last registration.
RemoveListenerOrLast(ls, callback) ==
  LET hits == {i \in 1..Len(ls) : ls[i] = callback}
      j == IF hits = {} THEN Len(ls)
           ELSE CHOOSE i \in hits : \A k \in hits : k <= i
  IN  IF ls = <<>> THEN <<>>
      ELSE SubSeq(ls, 1, j - 1) \o SubSeq(ls, j + 1, Len(ls))

\* emitter.removeListener(EVENT, callback): the last registration of the
\* callback is taken out; an unknown callback leaves the array as it is.
RECURSIVE RemoveListener(_, _)
RemoveListener(ls, callback) ==
  IF ls = <<>> THEN <<>>
  ELSE IF ls[Len(ls)] = callback THEN SubSeq(ls, 1, Len(ls) - 1)
  ELSE Append(RemoveListener(SubSeq(ls, 1, Len(ls) - 1), callback),
              ls[Len(ls)])

\* emit() walks a copy of the listener array taken when it starts.
EmitList(ls) == ls

\* What emit() does with a listener's exception: it lets it through, and the
\* listeners after the thrower are not called.
AfterThrow(frame) == "threw"

Count(ls, c) == Cardinality({i \in 1..Len(ls) : ls[i] = c})

Repeat(e, n) == [i \in 1..n |-> e]

Deliver(c, event) == received' = [received EXCEPT ![c] = Append(@, event)]

Pop == SubSeq(stack, 1, Len(stack) - 1)

Finished(stage, skipped) ==
  last' = [op |-> "dispatchEvent", arg |-> <<>>, stage |-> stage,
           result |-> skipped]

DispatchEvent(event) ==
  /\ CanCall
  /\ Len(thing.eventsDispatched) < MaxEvents
  /\ Len(stack) < MaxDepth
  /\ LET e == Stamped(event, thing.id)
     IN  /\ thing' = [thing EXCEPT !.eventsDispatched = Pushed(@, e)]
         /\ stack' = Append(stack, [event |-> e, snap |-> EmitList(listeners),
                                    i |-> 0, running |-> FALSE])
         /\ due' = [c \in Callbacks |->
                      due[c] \o Repeat(e, Count(listeners, c))]
  /\ Called("dispatchEvent", event, "emitting", 0)
  /\ UNCHANGED <<status, listeners, received, files, nextFile, db>>

\* emit() calls the first listener of its copy, or returns when it is empty.
EmitFirst ==
  /\ ~Idle
  /\ Top.i = 0
  /\ IF Top.snap = <<>>
     THEN /\ stack' = Pop
          /\ Finished("returned", 0)
          /\ UNCHANGED received
     ELSE /\ stack' = [stack EXCEPT ![Len(stack)].i = 1,
                                    ![Len(stack)].running = TRUE]
          /\ Deliver(Top.snap[1], Top.event)
          /\ UNCHANGED last
  /\ UNCHANGED <<status, thing, listeners, due, files, nextFile, db, calls,
                 budget>>

\* The running listener returns: emit() calls the next one, or returns.
ListenerReturn ==
  /\ ~Idle
  /\ Top.running
  /\ IF Top.i < Len(Top.snap)
     THEN /\ stack' = [stack EXCEPT ![Len(stack)].i = Top.i + 1]
          /\ Deliver(Top.snap[Top.i + 1], Top.event)
          /\ UNCHANGED last
     ELSE /\ stack' = Pop
          /\ Finished("returned", 0)
          /\ UNCHANGED received
  /\ UNCHANGED <<status, thing, listeners, due, files, nextFile, db, calls,
                 budget>>

\* The running listener throws: the exception leaves emit() and
\* dispatchEvent; a listener that called dispatchEvent is still running.
ListenerThrow ==
  /\ ~Idle
  /\ Top.running
  /\ stack' = Pop
  /\ Finished(AfterThrow(Top), Len(Top.snap) - Top.i)
  /\ UNCHANGED <<status, thing, listeners, received, due, files, nextFile, db,
                 calls, budget>>

AddEventSubscription(callback) ==
  /\ CanCall
  /\ Len(listeners) < MaxListeners
  /\ listeners' = On(listeners, callback)
  /\ Called("addEventSubscription", callback, Absent, Absent)
  /\ UNCHANGED <<status, thing, stack, received, due, files, nextFile, db>>

RemoveEventSubscription(callback) ==
  /\ CanCall
  /\ listeners' = RemoveListener(listeners, callback)
  /\ Called("removeEventSubscription", callback, Absent, "undefined")
  /\ UNCHANGED <<status, thing, stack, received, due, files, nextFile, db>>

\* ---------------------------------------------------------------- sessions
RegisterWebsocket(readyState) ==
  /\ CanCall
  /\ Len(thing.websockets) < MaxSockets
  /\ thing' = [thing EXCEPT !.websockets =
                 Append(@, [readyState |-> readyState, closeCalls |-> 0])]
  /\ Called("registerWebsocket", readyState, Absent, Absent)
  /\ UNCHANGED <<status, listeners, stack, received, due, files, nextFile, db>>

\* A slip: close() is called on every socket, whatever its state.
ClosedWhateverState(ws) ==
  [readyState |-> "closing", closeCalls |-> ws.closeCalls + 1]

\* ws.close() is called on the sockets that are open or connecting.
Closed(ws) ==
  IF ws.readyState \in {"open", "connecting"}
  THEN [readyState |-> "closing", closeCalls |-> ws.closeCalls + 1]
  ELSE ws

Remove(unlinkOk) ==
  /\ CanCall
  /\ thing.iconHref = Null => unlinkOk
  /\ files' = RetiredFiles(thing.iconHref, files, unlinkOk)
  /\ thing' = [thing EXCEPT
                 !.iconHref = IF @ # Null THEN RetiredHref(@) ELSE @,
                 !.websockets = [i \in 1..Len(@) |-> Closed(@[i])]]
  /\ Called("remove",
            [unlinkFailed |-> thing.iconHref # Null /\ ~unlinkOk],
            Absent, "undefined")
  /\ UNCHANGED <<status, listeners, stack, received, due, nextFile, db>>

\* ---------------------------------------------------------------- reads
\* getDescription(reqHost, reqSecure), called from outside.
GetDescriptionCall(reqHost, reqSecure) ==
  /\ CanCall
  /\ reqHost = Undefined => ~reqSecure
  /\ Called("getDescription",
            [reqHost |-> reqHost, reqSecure |-> reqSecure], Absent,
            Describe(thing, reqHost, reqSecure))
  /\ UNCHANGED <<status, thing, listeners, stack, received, due, files,
                 nextFile, db>>

\* A slip: every action counts as known.
KnownAlways(actions, action) == TRUE

\* this.actions.hasOwnProperty(action.name)
Known(actions, action) == action.name \in DOMAIN actions

AddAction(action) ==
  /\ CanCall
  /\ Called("addAction", action, Absent, Known(thing.actions, action))
  /\ UNCHANGED <<status, thing, listeners, stack, received, due, files,
                 nextFile, db>>

RemoveAction(action) ==
  /\ CanCall
  /\ Called("removeAction", action, Absent, Known(thing.actions, action))
  /\ UNCHANGED <<status, thing, listeners, stack, received, due, files,
                 nextFile, db>>

\* One valid and one invalid icon; NextIcon draws from all of IconDatas.
IconSample == {i \in IconDatas : i.mime \in {"image/png", "text/plain"}}

\* Every method, in any order, from the top level or from a listener.
Next ==
  \/ \E id \in Ids, d \in Descriptions, env \in Envs : Create(id, d, env)
  \/ \E c \in Coordinates, r \in DbResults : SetCoordinates(c[1], c[2], r)
  \/ \E n \in Names, r \in DbResults : SetName(n, r)
  \/ \E c \in Capabilities, r \in DbResults : SetSelectedCapability(c, r)
  \/ \E i \in IconSample, u \in BOOLEAN, env \in Envs, r \in DbResults :
       SetIcon(i, u, env, r)
  \/ \E i \in IconSample, u \in BOOLEAN, env \in Envs :
       SetIconUnconstructed(i, u, env)
  \/ \E rs \in ReadyStates : RegisterWebsocket(rs)
  \/ \E ok \in BOOLEAN : Remove(ok)
  \/ \E h \in Hosts \cup {Undefined}, s \in BOOLEAN : GetDescriptionCall(h, s)
  \/ \E n \in ActionNames : AddAction([name |-> n])
  \/ \E n \in ActionNames : RemoveAction([name |-> n])
  \/ \E e \in Events : DispatchEvent(e)
  \/ \E c \in Callbacks : AddEventSubscription(c)
  \/ \E c \in Callbacks : RemoveEventSubscription(c)
  \/ EmitFirst
  \/ ListenerReturn
  \/ ListenerThrow

Spec == Init /\ [][Next]_vars

\* The events and the subscriptions alone, to a greater depth.  No other
\* method reads or writes the listeners, the emit() calls or the deliveries.
NextHub ==
  \/ \E id \in Ids, d \in Descriptions, env \in Envs : Create(id, d, env)
  \/ \E e \in Events : DispatchEvent(e)
  \/ \E c \in Callbacks : AddEventSubscription(c)
  \/ \E c \in Callbacks : RemoveEventSubscription(c)
  \/ EmitFirst
  \/ ListenerReturn
  \/ ListenerThrow

SpecHub == InitWith(MaxHubCalls) /\ [][NextHub]_vars

\* The icon and the sessions alone, to a greater depth.  No other method
\* reads or writes the uploads directory or the icon reference.
NextIcon ==
  \/ \E id \in Ids, d \in Descriptions, env \in Envs : Create(id, d, env)
  \/ \E i \in IconDatas, u \in BOOLEAN, env \in Envs, r \in DbResults :
       SetIcon(i, u, env, r)
  \/ \E i \in IconDatas, u \in BOOLEAN, env \in Envs :
       SetIconUnconstructed(i, u, env)
  \/ \E rs \in ReadyStates : RegisterWebsocket(rs)
  \/ \E ok \in BOOLEAN : Remove(ok)

SpecIcon == InitWith(MaxIconCalls) /\ [][NextIcon]_vars

\* The reads among the setters that change what a description shows, with
\* every icon input.
NextView ==
  \/ \E id \in Ids, d \in Descriptions, env \in Envs : Create(id, d, env)
  \/ \E n \in Names, r \in DbResults : SetName(n, r)
  \/ \E i \in IconDatas, u \in BOOLEAN, env \in Envs, r \in DbResults :
       SetIcon(i, u, env, r)
  \/ \E h \in Hosts \cup {Undefined}, s \in BOOLEAN : GetDescriptionCall(h, s)
  \/ \E n \in ActionNames : AddAction([name |-> n])
  \/ \E n \in ActionNames : RemoveAction([name |-> n])

SpecView == InitWith(MaxViewCalls) /\ [][NextView]_vars

\* ================================================================ claims
\* A step that is a call of the method op on a constructed Thing.
IsCall(op) == status = "ok" /\ last'.op = op /\ calls' = calls + 1

\* A step in which the callback c is invoked.
Invoked(c) == Len(received'[c]) > Len(received[c])

Log == thing.eventsDispatched

\* C1: dispatchEvent never fails because of a listener: every dispatchEvent
\* that has finished returned normally and left no listener of its list
\* uncalled.
C1_DispatchNeverFails ==
  (last.op = "dispatchEvent" /\ last.stage # "emitting")
    => (last.stage = "returned" /\ last.result = 0)

\* C2: whenever no dispatch is in progress, each callback has been invoked
\* with exactly the events dispatched while it was registered, once per
\* registration, in dispatch order.
C2_ExactlyTheEventsDue ==
  Idle => \A c \in Callbacks : received[c] = due[c]

\* C3: a callback is never invoked once its removal has returned: every
\* invocation is of a callback that is registered at that moment.
C3_NeverInvokedAfterRemoval ==
  [][\A c \in Callbacks : Invoked(c) => Count(listeners, c) > 0]_vars

\* C4: the event log is append-only and in dispatch order: every step leaves
\* the old log as a prefix of the new one; a record is appended by a
\* dispatchEvent call and by nothing else, one per call and before any
\* listener is invoked with it; the record carries the Thing's id when the
\* caller gave no thingId and the caller's thingId otherwise, so every record
\* has a thingId.
C4_LogAppendOnly ==
  [][/\ IsPrefix(Log, Log')
     /\ IsCall("dispatchEvent") <=> Len(Log') = Len(Log) + 1
     /\ IsCall("dispatchEvent") =>
          /\ Log' = Append(Log, [name |-> last'.arg.name,
                                 thingId |-> IF last'.arg.thingId = Absent
                                             THEN thing.id
                                             ELSE last'.arg.thingId])
          /\ received' = received
     /\ \A c \in Callbacks :
          Invoked(c) => received'[c][Len(received'[c])] \in Range(Log)
     /\ \A i \in 1..Len(Log') : Log'[i].thingId # Absent]_vars

C4_Witness ==
  /\ Len(Log) = 2
  /\ Log[1] = [name |-> "overheated", thingId |-> "t1"]
  /\ Log[2] = [name |-> "pressed", thingId |-> "t9"]
  /\ last.op = "remove"

FailedReplace ==
  /\ IsCall("setIcon")
  /\ last'.stage = "writeFailed"
  /\ thing.iconHref # Null
  /\ FileOf(thing.iconHref) \in files

C7_InvalidIconRejected ==
  [][(/\ IsCall("setIcon")
      /\ \/ last'.arg.iconData.data = Absent
         \/ last'.arg.iconData.mime
              \notin {"image/jpeg", "image/png", "image/svg+xml"})
       => /\ thing' = thing
          /\ files' = files
          /\ nextFile' = nextFile
          /\ db' = db
          /\ listeners' = listeners
          /\ last'.stage = "invalid"
          /\ last'.result = "undefined"]_vars

C7_Witness ==
  /\ last.op = "setIcon"
  /\ last.arg.iconData.mime = "text/plain"
  /\ last.arg.updateDatabase
  /\ thing.iconHref # Null
  /\ db.calls = 1

\* C8: a setIcon call that installs an icon on a Thing that had one leaves
\* the icon reference naming the new file, which exists and is not the old
\* one; the old file is gone unless deleting it failed, and a failed
\* deletion does not keep the reference from moving to the new file.
C8_OneLiveIcon ==
  [][(IsCall("setIcon") /\ thing.iconHref # Null /\ last'.stage # "invalid")
       => /\ last'.stage = "installed" =>
               /\ thing'.iconHref # Null
               /\ thing'.iconHref # thing.iconHref
               /\ FileOf(thing'.iconHref) \in files' \ files
               /\ FileOf(thing.iconHref) \in files' => last'.arg.unlinkFailed
          /\ last'.arg.unlinkFailed => thing'.iconHref # thing.iconHref]_vars

C8_Witness ==
  /\ last.op = "setIcon"
  /\ last.stage = "installed"
  /\ last.arg.unlinkFailed
  /\ thing.iconHref = PublicPath(<<2, ".jpg">>)
  /\ files = {StoredIcon, <<1, ".png">>, <<2, ".jpg">>}

\* C9: a call of setName, setCoordinates or setSelectedCapability assigns
\* the field, then calls Database.updateThing once, with the Thing's id and
\* the description read after the assignment, and returns what that call
\* returns.
C9_SettersSave ==
  [][(\E op \in {"setName", "setCoordinates", "setSelectedCapability"} :
        IsCall(op))
       => /\ IsCall("setName") =>
               /\ thing'.name = last'.arg
               /\ db'.description.name = last'.arg
          /\ IsCall("setCoordinates") =>
               /\ <<thing'.floorplanX, thing'.floorplanY>> = last'.arg
               /\ <<db'.description.floorplanX, db'.description.floorplanY>>
                    = last'.arg
          /\ IsCall("setSelectedCapability") =>
               /\ thing'.selectedCapability = last'.arg
               /\ db'.description.selectedCapability = last'.arg
          /\ db'.calls = db.calls + 1
          /\ db'.id = thing.id
          /\ db'.description = GetDescription(thing')
          /\ last'.result = db'.result]_vars

C9_Witness ==
  /\ last.op = "setName"
  /\ last.result = "rejected"
  /\ thing.name = "desk lamp"
  /\ db.description.name = "desk lamp"
  /\ db.calls = 2

\* C10: setIcon calls Database.updateThing exactly when the icon was
\* installed and updateDatabase is true: then once, after the icon reference
\* was set, with a description naming the new icon, and the call's outcome is
\* what setIcon returns; otherwise not at all, and the constructor never.
C10_IconSavedIffInstalled ==
  [][/\ IsCall("setIcon") =>
          IF last'.stage = "installed" /\ last'.arg.updateDatabase
          THEN /\ db'.calls = db.calls + 1
               /\ db'.id = thing.id
               /\ thing'.iconHref # Null
               /\ db'.description = GetDescription(thing')
               /\ last'.result = db'.result
          ELSE /\ db' = db
               /\ last'.result = "undefined"
     /\ last'.op = "create" => db' = db]_vars

C10_Witness ==
  /\ last.op = "setIcon"
  /\ last.stage = "installed"
  /\ last.arg.updateDatabase
  /\ last.result = "rejected"
  /\ db.description.iconHref = PublicPath(<<1, ".jpg">>)

\* C11: remove() calls close() once on each registered socket that is open
\* or connecting and on no other; it leaves the icon reference unset whether
\* or not the unlink succeeded; with no icon set, as on a second call, it
\* unlinks nothing; it returns normally.
C11_RemoveClosesLiveSessions ==
  [][IsCall("remove") =>
       /\ Len(thing'.websockets) = Len(thing.websockets)
       /\ \A i \in 1..Len(thing.websockets) :
            LET ws == thing.websockets[i]
                after == thing'.websockets[i]
            IN  IF ws.readyState \in {"open", "connecting"}
                THEN after.closeCalls = ws.closeCalls + 1
                ELSE after = ws
       /\ thing'.iconHref = Null
       /\ thing.iconHref = Null => files' = files
       /\ last'.arg.unlinkFailed => files' = files
       /\ last'.result = "undefined"]_vars

C11_Witness ==
  /\ last.op = "remove"
  /\ last.arg.unlinkFailed
  /\ thing.iconHref = Null
  /\ StoredIcon \in files
  /\ thing.websockets = <<[readyState |-> "closing", closeCalls |-> 1],
                          [readyState |-> "closed", closeCalls |-> 0]>>

\* C12: getDescription changes no field of the Thing; with a request host
\* the links it returns are the stored links followed by one alternate link
\* whose href is wss://<host><thing href> when the request is secure and
\* ws://<host><thing href> otherwise, so that it comes after the UI link;
\* with no arguments the links returned are the stored links; the stored
\* links never hold a websocket link, however often it is called.
C12_DescriptionLeavesThing ==
  [][IsCall("getDescription") =>
       LET links == last'.result.links
           host == last'.arg.reqHost
           n == Len(thing.links)
       IN  /\ UNCHANGED <<status, thing, listeners, stack, received, due,
                          files, nextFile, db>>
           /\ thing.links[n].rel = "alternate"
           /\ thing.links[n].mediaType = "text/html"
           /\ \A i \in 1..n : "mediaType" \in DOMAIN thing.links[i] \/
                              thing.links[i].rel # "alternate"
           /\ IF host = Undefined
              THEN links = thing.links
              ELSE /\ Len(links) = n + 1
                   /\ SubSeq(links, 1, n) = thing.links
                   /\ links[n + 1] =
                        [rel |-> "alternate",
                         href |-> <<IF last'.arg.reqSecure
                                    THEN "wss" ELSE "ws", "://">>
                                  \o host \o thing.href]]_vars

\* A second getDescription with a request host, on a Thing whose UI link
\* was found among the links of its description.
C12_Witness ==
  /\ last.op = "getDescription"
  /\ calls = 2
  /\ db.calls = 0
  /\ last.arg.reqHost # Undefined
  /\ last.arg.reqSecure
  /\ Len(last.result.links) = 5
  /\ last.result.links[4].href = <<"http", "://a.example/lamp">>

\* C13: new Thing(id, description) with a missing or empty id, or with no
\* description, throws InvalidArgument, so that the caller holds no object
\* on which a method can be called.
C13_InvalidCreateThrows ==
  status = "invalid" => last.op = "create" /\ last.result = "InvalidArgument"

\* C14: addAction and removeAction each return true exactly when action.name
\* is a key of the Thing's actions, and change neither the actions nor any
\* other state; no method changes the set of action names given at
\* construction.
C14_ActionsOnlyLookedUp ==
  [][/\ (IsCall("addAction") \/ IsCall("removeAction")) =>
          /\ last'.result = (last'.arg.name \in DOMAIN thing.actions)
          /\ UNCHANGED <<status, thing, listeners, stack, received, due,
                         files, nextFile, db>>
     /\ status = "ok" => thing'.actions = thing.actions]_vars

\* addAction has answered true for a known action, and removeAction then
\* answers true for it as well.
C14_Witness ==
  /\ last.op = "removeAction"
  /\ last.arg.name = "toggle"
  /\ last.result = TRUE
  /\ calls = 2
  /\ db.calls = 0
  /\ nextFile = 0
  /\ DOMAIN thing.actions = {"toggle"}

\* Every property, action and event descriptor carries the href
\* <thing href>/<collection>/<name>.
DescriptorHrefsHold(t) ==
  /\ \A n \in DOMAIN t.properties :
       t.properties[n].href = t.href \o <<"/properties", n>>
  /\ \A n \in DOMAIN t.actions :
       t.actions[n].href = t.href \o <<"/actions", n>>
  /\ \A n \in DOMAIN t.events :
       t.events[n].href = t.href \o <<"/events", n>>

C16_RemoveUnknownIsNoOp ==
  [][(IsCall("removeEventSubscription") /\ last'.arg \notin Range(listeners))
       => /\ UNCHANGED <<status, thing, listeners, stack, received, due,
                         files, nextFile, db>>
          /\ last'.result = "undefined"]_vars

\* The callback b was removed twice while only a was registered, twice.
C16_Witness ==
  /\ last.op = "removeEventSubscription"
  /\ last.arg = "b"
  /\ calls = 4
  /\ listeners = <<"a", "a">>
  /\ Log = <<>>

\* Whether the deliveries r follow the order of the log from position p on:
\* each delivery is of a log record that is not before the record of the
\* delivery in front of it.
RECURSIVE InLogOrder(_, _, _)
InLogOrder(r, log, p) ==
  IF r = <<>> THEN TRUE
  ELSE LET qs == {q \in p..Len(log) : log[q] = r[1]}
       IN  IF qs = {} THEN FALSE
           ELSE InLogOrder(Tail(r), log,
                           CHOOSE q \in qs : \A k \in qs : q <= k)

\* C17: every listener receives the events in the order of the event log,
\* also when a listener calls dispatchEvent while it handles an event.
C17_DeliveredInLogOrder ==
  \A c \in Callbacks : InLogOrder(received[c], Log, 1)

\* C18: when setIcon has created the file of the new icon and the write of
\* its data fails, the call leaves the icon reference unset and leaves no
\* new file in the uploads directory.
C18_FailedWriteLeavesNoFile ==
  [][(/\ IsCall("setIcon")
      /\ last'.stage = "writeFailed"
      /\ nextFile' = nextFile + 1)
       => thing'.iconHref = Null /\ files' \subseteq files]_vars

\* C19: a callback registered k times and removed j times is invoked k - j
\* times by every later dispatchEvent: when a dispatchEvent ends, it has
\* invoked each callback once for every registration the callback had when
\* the dispatch began.
C19_InvokedOncePerRegistration ==
  [][Len(stack') < Len(stack) =>
       \A c \in Callbacks :
         Count(SubSeq(Top.snap, 1, Top.i), c) = Count(Top.snap, c)]_vars

\* C20: a setter whose save is rejected keeps what it assigned: the new
\* name, coordinates or capability stays in the Thing, and after
\* setIcon(icon, true) the new file stays installed and referenced while the
\* old file, when its unlink succeeded, is gone; the description handed to
\* the rejected save is the one the Thing now shows, which the store did not
\* take.
C20_NoRollback ==
  [][/\ (IsCall("setName") /\ last'.result = "rejected")
          => thing'.name = last'.arg
     /\ (IsCall("setCoordinates") /\ last'.result = "rejected")
          => /\ thing'.floorplanX = last'.arg[1]
             /\ thing'.floorplanY = last'.arg[2]
     /\ (IsCall("setSelectedCapability") /\ last'.result = "rejected")
          => thing'.selectedCapability = last'.arg
     /\ (IsCall("setIcon") /\ last'.result = "rejected")
          => /\ thing'.iconHref # Null
             /\ FileOf(thing'.iconHref) \in files' \ files
             /\ (thing.iconHref # Null /\ ~last'.arg.unlinkFailed)
                  => FileOf(thing.iconHref) \notin files'
     /\ (status = "ok" /\ db'.calls = db.calls + 1 /\
         db'.result = "rejected")
          => db'.description = GetDescription(thing')]_vars

\* The only save ever made was rejected, and the Thing shows the new icon
\* while the stored one is gone from the uploads directory.
C20_Witness ==
  /\ last.op = "setIcon"
  /\ last.result = "rejected"
  /\ db.calls = 1
  /\ thing.iconHref = PublicPath(<<1, ".png">>)
  /\ files = {<<1, ".png">>}
====
